---- MODULE Spec2Model ----
(***************************************************************************)
(* ChartState (src/chartState.js): the state container of the chart page.  *)
(* It owns the array #chartData, validates entries pushed into it and      *)
(* notifies the subscribed callbacks with a copy of the array.             *)
(*                                                                         *)
(* JavaScript is single threaded and no method of ChartState yields, so    *)
(* each public method, with the callbacks it runs, is one action. The      *)
(* callbacks do not call back into the container.                          *)
(*                                                                         *)
(* Spec is the container under any caller and any callbacks. PageSpec is   *)
(* the page (src/unnamed/part_000): the container with the chart, the      *)
(* table and the JSON editor subscribed, driven by the page's forms.       *)
(***************************************************************************)
EXTENDS Integers, Sequences, FiniteSets

\* Longest candidate list handed to updateData.
MaxCandidates == 2
\* Most callbacks registered with subscribe.
MaxSubs == 2

(***************************************************************************)
(* Values of the language.                                                 *)
(***************************************************************************)
\* A string is the sequence of its characters.
WhiteSpace == {" "}
\* A number is an integer or NaN. Every comparison with NaN is false.
Num(k) == [nan |-> FALSE, n |-> k]
NaN == [nan |-> TRUE, n |-> 0]
Gt(v, k) == ~v.nan /\ v.n > k
Lt(v, k) == ~v.nan /\ v.n < k
\* The bounds #pushValidItem compares a value with.
MaxValue == 100
MinValue == 0

\* String.prototype.trim: strips the white space at both ends.
RECURSIVE TrimStart(_)
TrimStart(s) ==
  IF s # <<>> /\ Head(s) \in WhiteSpace THEN TrimStart(Tail(s)) ELSE s
RECURSIVE TrimEnd(_)
TrimEnd(s) ==
  IF s # <<>> /\ s[Len(s)] \in WhiteSpace
  THEN TrimEnd(SubSeq(s, 1, Len(s) - 1)) ELSE s
Trim(s) == TrimEnd(TrimStart(s))

(***************************************************************************)
(* Inputs.                                                                 *)
(***************************************************************************)
\* Entries handed to addItem and updateData, of the type the class documents
\* ({id: string, value: number}): valid ones on both ends of the range, one
\* whose value is NaN, and ones that break one or two rules.
Entries ==
  { [id |-> <<"a">>, value |-> Num(0)],
    [id |-> <<"b">>, value |-> Num(100)],
    [id |-> <<"a">>, value |-> NaN],
    [id |-> <<"a">>, value |-> Num(101)],
    [id |-> <<"b">>, value |-> Num(-1)],
    [id |-> <<>>, value |-> Num(101)],
    [id |-> <<" ">>, value |-> Num(0)] }
RECURSIVE SeqsUpTo(_, _)
SeqsUpTo(S, k) ==
  IF k = 0 THEN {<<>>}
  ELSE LET shorter == SeqsUpTo(S, k - 1)
       IN shorter \cup {Append(s, x) : s \in shorter, x \in S}
CandidateLists == SeqsUpTo(Entries, MaxCandidates)

\* What a callback does, each time it is called, with the array it is handed:
\* only read it (as the page's renderers do), change it, or raise.
Behaviours == {"render", "mutate", "raise"}
\* Changes made to an array by code outside the container.
Mutations == {"push", "pop", "reverse"}
PushedEntry == [id |-> <<>>, value |-> Num(101)]
Reverse(arr) == [i \in 1..Len(arr) |-> arr[Len(arr) + 1 - i]]
Mutate(arr, m) ==
  CASE m = "push" -> Append(arr, PushedEntry)
    [] m = "pop" -> SubSeq(arr, 1, Len(arr) - 1)
    [] m = "reverse" -> Reverse(arr)

(***************************************************************************)
(* Arrays are objects: heap maps a reference to the array's elements.      *)
(* ChartDataRef is the array made by the constructor, which #chartData     *)
(* names for the life of the container. An array made by getData lives in  *)
(* the slot of the code it is made for: SubSlot(i) for the i-th callback,  *)
(* CallerSlot for the caller of getData.                                   *)
(***************************************************************************)
ChartDataRef == 0
SubSlot(i) == i
\* The page registers three callbacks: chart.render, table.render and
\* jsonEditor.render, in this order.
ChartView == 1
TableView == 2
JsonView == 3
PageViews == {ChartView, TableView, JsonView}
MostSubs == IF MaxSubs > JsonView THEN MaxSubs ELSE JsonView
CallerSlot == MostSubs + 1
Refs == {ChartDataRef} \cup {SubSlot(i) : i \in 1..MostSubs} \cup {CallerSlot}
\* Arrays nothing refers to any more are dropped.
Collect(hp, live) ==
  [r \in Refs |-> IF r = ChartDataRef \/ r \in live THEN hp[r] ELSE <<>>]

VARIABLES
  heap,         \* the arrays; heap[ChartDataRef] is #chartData
  subscribers,  \* #subscribers; a callback is named by the rank of its
                \* registration: 1 for the first one registered
  held,         \* the reference the caller got from its last getData, if any
  op,           \* the last call
  args,         \* its arguments
  thrown,       \* the error it raised, "none" if it returned
  log,          \* the callbacks it ran, in order, each with the elements of the
                \* array it was handed and what it did
  shown,        \* the page: shown[c] is the elements of the array renderer c
                \* last drew
  rows,         \* the page: the rows of the table body, each with the text
                \* of its id cell and the value of its input
  calls,        \* the page: the calls the last event handler made on the
                \* container
  alert         \* the page: the message the last event handler alerted,
                \* "none" if it alerted nothing

page == <<shown, rows, calls, alert>>
vars == <<heap, subscribers, held, op, args, thrown, log, page>>

\* constructor
Init ==
  /\ heap = [r \in Refs |-> <<>>]
  /\ subscribers = <<>>
  /\ held = {}
  /\ op = "new"
  /\ args = <<>>
  /\ thrown = "none"
  /\ log = <<>>
  /\ shown = [c \in PageViews |-> <<>>]
  /\ rows = <<>>
  /\ calls = <<>>
  /\ alert = "none"

(***************************************************************************)
(* The methods of ChartState, as functions of the heap.                    *)
(***************************************************************************)
\* A getData that returns #chartData itself instead of a copy.
getDataAlias(hp, slot) == [ref |-> ChartDataRef, heap |-> hp]

\* getData: a new array with the elements of #chartData.
getData(hp, slot) ==
  [ref |-> slot, heap |-> [hp EXCEPT ![slot] = hp[ChartDataRef]]]

\* Variants of #pushValidItem with one slip each: the push made before the
\* checks, the duplicate check left out, the trim left out of the empty-id
\* check, the item put at the front.
pushVariant(hp, newItem, slip) ==
  LET chart == hp[ChartDataRef]
      added == IF slip = "unshift" THEN <<newItem>> \o chart
               ELSE Append(chart, newItem)
      pushed == [hp EXCEPT ![ChartDataRef] = added]
      left == IF slip = "pushFirst" THEN pushed ELSE hp
  IN
  IF slip # "noDuplicateCheck" /\ \E i \in 1..Len(chart) : chart[i].id = newItem.id
  THEN [heap |-> left, thrown |-> "duplicate"]
  ELSE IF newItem.id = <<>> \/ (slip # "noTrim" /\ Trim(newItem.id) = <<>>)
  THEN [heap |-> left, thrown |-> "emptyId"]
  ELSE IF Gt(newItem.value, MaxValue)
  THEN [heap |-> left, thrown |-> "tooHigh"]
  ELSE IF Lt(newItem.value, MinValue)
  THEN [heap |-> left, thrown |-> "tooLow"]
  ELSE [heap |-> pushed, thrown |-> "none"]
pushBeforeChecks(hp, newItem) == pushVariant(hp, newItem, "pushFirst")
pushNoDuplicateCheck(hp, newItem) == pushVariant(hp, newItem, "noDuplicateCheck")
pushNoTrim(hp, newItem) == pushVariant(hp, newItem, "noTrim")
pushAtFront(hp, newItem) == pushVariant(hp, newItem, "unshift")

\* A #pushValidItem that checks the value before the id.
pushChecksValueFirst(hp, newItem) ==
  LET chart == hp[ChartDataRef] IN
  IF Gt(newItem.value, MaxValue)
  THEN [heap |-> hp, thrown |-> "tooHigh"]
  ELSE IF Lt(newItem.value, MinValue)
  THEN [heap |-> hp, thrown |-> "tooLow"]
  ELSE IF \E i \in 1..Len(chart) : chart[i].id = newItem.id
  THEN [heap |-> hp, thrown |-> "duplicate"]
  ELSE IF newItem.id = <<>> \/ Trim(newItem.id) = <<>>
  THEN [heap |-> hp, thrown |-> "emptyId"]
  ELSE [heap |-> [hp EXCEPT ![ChartDataRef] = Append(chart, newItem)],
        thrown |-> "none"]

\* #pushValidItem: the four checks in order, then the push.
pushValidItem(hp, newItem) ==
  LET chart == hp[ChartDataRef] IN
  IF \E i \in 1..Len(chart) : chart[i].id = newItem.id
  THEN [heap |-> hp, thrown |-> "duplicate"]
  ELSE IF newItem.id = <<>> \/ Trim(newItem.id) = <<>>
  THEN [heap |-> hp, thrown |-> "emptyId"]
  ELSE IF Gt(newItem.value, MaxValue)
  THEN [heap |-> hp, thrown |-> "tooHigh"]
  ELSE IF Lt(newItem.value, MinValue)
  THEN [heap |-> hp, thrown |-> "tooLow"]
  ELSE [heap |-> [hp EXCEPT ![ChartDataRef] = Append(chart, newItem)],
        thrown |-> "none"]

\* newData.forEach((item) => this.#pushValidItem(item)), from item i on: the
\* first error ends the loop and leaves what was pushed before it.
RECURSIVE pushEach(_, _, _)
pushEach(hp, newData, i) ==
  IF i > Len(newData) THEN [heap |-> hp, thrown |-> "none"]
  ELSE LET p == pushValidItem(hp, newData[i])
       IN IF p.thrown # "none" THEN p ELSE pushEach(p.heap, newData, i + 1)

\* One callback, run on the array it is handed. The one that changes its
\* array reorders it, removes its last element and adds one.
callback(does, hp, ref) ==
  CASE does = "render" -> [heap |-> hp, thrown |-> "none"]
    [] does = "mutate" ->
         [heap |-> [hp EXCEPT ![ref] =
                      Mutate(Mutate(Mutate(hp[ref], "reverse"), "pop"), "push")],
          thrown |-> "none"]
    [] does = "raise" -> [heap |-> hp, thrown |-> "callback"]

\* #notify: this.#subscribers.forEach((callback) => callback(this.getData())),
\* from the i-th callback on; how[c] is what callback c does in this call. An
\* error raised by a callback ends the loop.
RECURSIVE notifyFrom(_, _, _, _, _)
notifyFrom(hp, subs, i, lg, how) ==
  IF i > Len(subs) THEN [heap |-> hp, thrown |-> "none", log |-> lg]
  ELSE LET g == getData(hp, SubSlot(i))
           does == how[subs[i]]
           ran == Append(lg, [callback |-> subs[i], data |-> g.heap[g.ref],
                              did |-> does])
           c == callback(does, g.heap, g.ref)
       IN IF c.thrown # "none"
          THEN [heap |-> c.heap, thrown |-> c.thrown, log |-> ran]
          ELSE notifyFrom(c.heap, subs, i + 1, ran, how)
\* A #notify that runs the callbacks last registered first.
notifyReversed(hp, subs, how) == notifyFrom(hp, Reverse(subs), 1, <<>>, how)
\* A #notify that catches what a callback raises and returns.
notifyCatching(hp, subs, how) ==
  LET n == notifyFrom(hp, subs, 1, <<>>, how)
  IN [heap |-> n.heap, thrown |-> "none", log |-> n.log]
\* A #notify that runs every callback and raises afterwards what one raised.
notifyKeepGoing(hp, subs, how) ==
  LET calm == [c \in DOMAIN how |-> IF how[c] = "raise" THEN "render" ELSE how[c]]
      n == notifyFrom(hp, subs, 1, <<>>, calm)
      raised == \E i \in 1..Len(subs) : how[subs[i]] = "raise"
  IN [heap |-> n.heap,
      thrown |-> IF raised THEN "callback" ELSE "none",
      log |-> [i \in 1..Len(n.log) |->
                 [n.log[i] EXCEPT !.did = how[n.log[i].callback]]]]
notify(hp, subs, how) == notifyFrom(hp, subs, 1, <<>>, how)

\* An updateData that does not empty #chartData first.
updateDataNoClear(hp, subs, newData, how) ==
  LET p == pushEach(hp, newData, 1)
  IN IF p.thrown # "none"
     THEN [heap |-> p.heap, thrown |-> p.thrown, log |-> <<>>]
     ELSE notify(p.heap, subs, how)

\* An updateData that pushes the candidates after the entries #chartData
\* holds, and drops those entries only when every candidate has passed.
updateDataChecksOldIds(hp, subs, newData, how) ==
  LET old == Len(hp[ChartDataRef])
      p == pushEach(hp, newData, 1)
      kept == SubSeq(p.heap[ChartDataRef], old + 1, Len(p.heap[ChartDataRef]))
  IN IF p.thrown # "none"
     THEN [heap |-> hp, thrown |-> p.thrown, log |-> <<>>]
     ELSE notify([p.heap EXCEPT ![ChartDataRef] = kept], subs, how)

\* updateData
updateData(hp, subs, newData, how) ==
  LET cleared == [hp EXCEPT ![ChartDataRef] = <<>>]
      p == pushEach(cleared, newData, 1)
  IN IF p.thrown # "none"
     THEN [heap |-> p.heap, thrown |-> p.thrown, log |-> <<>>]
     ELSE notify(p.heap, subs, how)

\* An addItem that notifies whether or not the item was pushed.
addItemNotifyAlways(hp, subs, newItem, how) ==
  LET p == pushValidItem(hp, newItem)
      n == notify(p.heap, subs, how)
  IN IF p.thrown # "none"
     THEN [heap |-> n.heap, thrown |-> p.thrown, log |-> n.log]
     ELSE n

\* addItem
addItem(hp, subs, newItem, how) ==
  LET p == pushValidItem(hp, newItem)
  IN IF p.thrown # "none"
     THEN [heap |-> p.heap, thrown |-> p.thrown, log |-> <<>>]
     ELSE notify(p.heap, subs, how)

\* subscribe
subscribe(subs, cb) == Append(subs, cb)

(***************************************************************************)
(* Actions: one call of a public method, or one change the caller makes to *)
(* the array getData has just returned to it. A callback keeps no array    *)
(* after it returns; the caller lets go of its array when it next calls a  *)
(* method.                                                                 *)
(***************************************************************************)
\* What each registered callback does in one call: every callback renders, or
\* each does as it likes. A call that runs no callback is taken once.
Rendering == [c \in 1..Len(subscribers) |-> "render"]
Behaving(r) ==
  IF r.log = <<>> THEN {Rendering} ELSE [1..Len(subscribers) -> Behaviours]

Subscribe ==
  /\ Len(subscribers) < MaxSubs
  /\ LET cb == Len(subscribers) + 1
     IN /\ subscribers' = subscribe(subscribers, cb)
        /\ args' = <<cb>>
  /\ heap' = Collect(heap, {})
  /\ held' = {}
  /\ op' = "subscribe"
  /\ thrown' = "none"
  /\ log' = <<>>
  /\ UNCHANGED page

GetData ==
  LET g == getData(heap, CallerSlot) IN
  /\ held' = {g.ref}
  /\ heap' = Collect(g.heap, {g.ref})
  /\ op' = "getData"
  /\ args' = <<>>
  /\ thrown' = "none"
  /\ log' = <<>>
  /\ UNCHANGED <<subscribers, page>>

MutateSnapshot(m) ==
  /\ op = "getData"
  /\ \E r \in held : heap' = [heap EXCEPT ![r] = Mutate(heap[r], m)]
  /\ op' = "mutateSnapshot"
  /\ args' = <<m>>
  /\ thrown' = "none"
  /\ log' = <<>>
  /\ UNCHANGED <<subscribers, held, page>>

AddItem(newItem, how) ==
  LET r == addItem(heap, subscribers, newItem, how) IN
  /\ heap' = Collect(r.heap, {})
  /\ held' = {}
  /\ op' = "addItem"
  /\ args' = <<newItem>>
  /\ thrown' = r.thrown
  /\ log' = r.log
  /\ UNCHANGED <<subscribers, page>>

UpdateData(newData, how) ==
  LET r == updateData(heap, subscribers, newData, how) IN
  /\ heap' = Collect(r.heap, {})
  /\ held' = {}
  /\ op' = "updateData"
  /\ args' = <<newData>>
  /\ thrown' = r.thrown
  /\ log' = r.log
  /\ UNCHANGED <<subscribers, page>>

\* updateData(getData()): the caller hands updateData the array getData has
\* just made for it. updateData empties #chartData before it reads the array
\* it was handed, so newData is that array's elements after the emptying.
UpdateDataWithGetData(how) ==
  LET g == getData(heap, CallerSlot)
      newData == [g.heap EXCEPT ![ChartDataRef] = <<>>][g.ref]
      r == updateData(g.heap, subscribers, newData, how)
  IN
  /\ heap' = Collect(r.heap, {})
  /\ held' = {}
  /\ op' = "updateData(getData())"
  /\ args' = <<newData>>
  /\ thrown' = r.thrown
  /\ log' = r.log
  /\ UNCHANGED <<subscribers, page>>

Next ==
  \/ Subscribe
  \/ GetData
  \/ \E m \in Mutations : MutateSnapshot(m)
  \/ \E newItem \in Entries :
       \E how \in Behaving(addItem(heap, subscribers, newItem, Rendering)) :
         AddItem(newItem, how)
  \/ \E newData \in CandidateLists :
       \E how \in Behaving(updateData(heap, subscribers, newData, Rendering)) :
         UpdateData(newData, how)
  \/ \E how \in Behaving(updateData(heap, subscribers, heap[ChartDataRef],
                                     Rendering)) :
       UpdateDataWithGetData(how)

Spec == Init /\ [][Next]_vars

\* #chartData, and what getData returns.
ChartData == heap[ChartDataRef]

(***************************************************************************)
(* The page. Its three renderers only read the array they are handed, and  *)
(* its event handlers catch what the container raises and alert it.        *)
(***************************************************************************)
\* String(v) for a number, as the characters of its decimal numeral.
Digits == <<"0", "1", "2", "3", "4", "5", "6", "7", "8", "9">>
RECURSIVE NatToString(_)
NatToString(n) ==
  IF n < 10 THEN <<Digits[n + 1]>>
  ELSE Append(NatToString(n \div 10), Digits[(n % 10) + 1])
ToString(v) ==
  IF v.nan THEN <<"N", "a", "N">>
  ELSE IF v.n < 0 THEN <<"-">> \o NatToString(0 - v.n)
  ELSE NatToString(v.n)

\* Number(s) for a string: 0 for an empty or blank one, the value of a
\* numeral, NaN for anything else.
IsDigits(s) == s # <<>> /\ \A i \in 1..Len(s) : \E d \in 1..10 : Digits[d] = s[i]
IsNumeral(s) == IsDigits(s) \/ (s # <<>> /\ Head(s) = "-" /\ IsDigits(Tail(s)))
RECURSIVE DigitsToNat(_)
DigitsToNat(s) ==
  IF s = <<>> THEN 0
  ELSE 10 * DigitsToNat(SubSeq(s, 1, Len(s) - 1))
         + ((CHOOSE d \in 1..10 : Digits[d] = s[Len(s)]) - 1)
Number(s) ==
  LET u == Trim(s) IN
  IF u = <<>> THEN Num(0)
  ELSE IF IsDigits(u) THEN Num(DigitsToNat(u))
  ELSE IF IsNumeral(u) THEN Num(0 - DigitsToNat(Tail(u)))
  ELSE NaN

\* input.value = item.value on an input of type number: the string of the
\* value, or the empty string when that string is not a numeral.
InputValue(v) == IF IsNumeral(ToString(v)) THEN ToString(v) ELSE <<>>

\* What the user types in the add form: an id and the text of a value.
AddFormInputs == {[id |-> e.id, value |-> ToString(e.value)] : e \in Entries}
\* What the user types over the value of a table row.
TypedValues == {ToString(Num(101))}

\* The text of the JSON editor is a sequence of tokens: brackets, commas and
\* object literals with an id and a value.
Tok(c) == [t |-> c, id |-> <<>>, value |-> Num(0)]
Obj(e) == [t |-> "{", id |-> e.id, value |-> e.value]
JsonEntries ==
  { [id |-> <<"a">>, value |-> Num(0)],
    [id |-> <<"b">>, value |-> Num(101)] }
\* The text of an array of entries.
JsonText(list) ==
  <<Tok("[")>>
    \o [k \in 1..(2 * Len(list) - 1) |->
          IF k % 2 = 1 THEN Obj(list[(k + 1) \div 2]) ELSE Tok(",")]
    \o <<Tok("]")>>
WellFormedTexts == {JsonText(list) : list \in SeqsUpTo(JsonEntries, MaxCandidates)}
\* Texts that are not JSON: the empty text, an array left open, an array with
\* a comma before its closing bracket.
MalformedTexts ==
  {<<>>}
    \cup {SubSeq(text, 1, Len(text) - 1) : text \in WellFormedTexts}
    \cup {SubSeq(text, 1, Len(text) - 1) \o <<Tok(","), Tok("]")>> :
            text \in WellFormedTexts}
JsonTexts == WellFormedTexts \cup MalformedTexts

\* JSON.parse, for the texts above: ok with the array the text denotes, or
\* not ok (a SyntaxError). parseElements reads the elements from token i on.
RECURSIVE parseElements(_, _, _)
parseElements(text, i, acc) ==
  IF i + 1 > Len(text) \/ text[i].t # "{"
  THEN [ok |-> FALSE, value |-> <<>>]
  ELSE LET read == Append(acc, [id |-> text[i].id, value |-> text[i].value])
       IN IF text[i + 1].t = "]"
          THEN [ok |-> i + 1 = Len(text), value |-> read]
          ELSE IF text[i + 1].t = ","
          THEN parseElements(text, i + 2, read)
          ELSE [ok |-> FALSE, value |-> <<>>]
JSONparse(text) ==
  IF Len(text) < 2 \/ text[1].t # "["
  THEN [ok |-> FALSE, value |-> <<>>]
  ELSE IF text[2].t = "]"
  THEN [ok |-> Len(text) = 2, value |-> <<>>]
  ELSE parseElements(text, 2, <<>>)

\* table.render: one row for each item.
tableRender(data) ==
  [i \in 1..Len(data) |-> [id |-> data[i].id, input |-> InputValue(data[i].value)]]

\* try { ... } catch (err) { alert(err.message); } around one call on the
\* container, whose result is r.
caught(r, call) ==
  [heap |-> r.heap, log |-> r.log, calls |-> <<call>>, alert |-> r.thrown]

\* setupAddForm.handleSubmit
addFormHandleSubmit(hp, subs, input, how) ==
  LET newItem == [id |-> input.id, value |-> Number(input.value)]
  IN caught(addItem(hp, subs, newItem, how),
            [method |-> "addItem", arg |-> newItem])

\* A handleSubmit of the table that hands updateData the container's data
\* instead of the rows of the table.
tableSubmitsState(hp, subs, rws, how) ==
  LET newData == getData(hp, CallerSlot).heap[CallerSlot]
  IN caught(updateData(hp, subs, newData, how),
            [method |-> "updateData", arg |-> newData])

\* setupTable.handleSubmit
tableHandleSubmit(hp, subs, rws, how) ==
  LET newData == [i \in 1..Len(rws) |->
                    [id |-> rws[i].id, value |-> Number(rws[i].input)]]
  IN caught(updateData(hp, subs, newData, how),
            [method |-> "updateData", arg |-> newData])

\* A handleSubmit of the JSON editor that submits an empty array when the
\* text does not parse.
jsonSubmitsEmptyOnError(hp, subs, text, how) ==
  LET parsed == JSONparse(text)
      newData == IF parsed.ok THEN parsed.value ELSE <<>>
  IN caught(updateData(hp, subs, newData, how),
            [method |-> "updateData", arg |-> newData])

\* setupJsonEditor.handleSubmit
jsonHandleSubmit(hp, subs, text, how) ==
  LET parsed == JSONparse(text) IN
  IF ~parsed.ok
  THEN [heap |-> hp, log |-> <<>>, calls |-> <<>>, alert |-> "SyntaxError"]
  ELSE caught(updateData(hp, subs, parsed.value, how),
              [method |-> "updateData", arg |-> parsed.value])

\* The page's callbacks only render.
PageRenders == [c \in PageViews |-> "render"]
\* What renderer c shows after the callbacks of lg have run.
Drawn(c, lg, before) ==
  IF \E i \in 1..Len(lg) : lg[i].callback = c
  THEN lg[CHOOSE i \in 1..Len(lg) : lg[i].callback = c].data
  ELSE before
\* The rows of the table after the callbacks of lg have run.
Rows(lg, before) ==
  IF \E i \in 1..Len(lg) : lg[i].callback = TableView
  THEN tableRender(Drawn(TableView, lg, <<>>))
  ELSE before

\* The DOMContentLoaded handler: a new container, the three renderers
\* subscribed, then updateData([]).
PageInit ==
  LET subs == subscribe(subscribe(subscribe(<<>>, ChartView), TableView), JsonView)
      r == updateData([ref \in Refs |-> <<>>], subs, <<>>, PageRenders)
  IN
  /\ heap = Collect(r.heap, {})
  /\ subscribers = subs
  /\ held = {}
  /\ op = "DOMContentLoaded"
  /\ args = <<>>
  /\ thrown = r.thrown
  /\ log = r.log
  /\ shown = [c \in PageViews |-> Drawn(c, r.log, <<>>)]
  /\ rows = Rows(r.log, <<>>)
  /\ calls = <<[method |-> "updateData", arg |-> <<>>]>>
  /\ alert = "none"

\* An event handler has run, with result h.
Handled(h) ==
  /\ heap' = Collect(h.heap, {})
  /\ thrown' = "none"
  /\ log' = h.log
  /\ shown' = [c \in PageViews |-> Drawn(c, h.log, shown[c])]
  /\ rows' = Rows(h.log, rows)
  /\ calls' = h.calls
  /\ alert' = h.alert
  /\ UNCHANGED <<subscribers, held>>

AddFormSubmit(input) ==
  /\ op' = "addFormSubmit"
  /\ args' = <<input>>
  /\ Handled(addFormHandleSubmit(heap, subscribers, input, PageRenders))

TableSubmit ==
  /\ op' = "tableSubmit"
  /\ args' = <<>>
  /\ Handled(tableHandleSubmit(heap, subscribers, rows, PageRenders))

JsonSubmit(text) ==
  /\ op' = "jsonSubmit"
  /\ args' = <<text>>
  /\ Handled(jsonHandleSubmit(heap, subscribers, text, PageRenders))

\* The click handler of the delete button of row i: tr.remove().
DeleteRow(i) ==
  /\ rows' = SubSeq(rows, 1, i - 1) \o SubSeq(rows, i + 1, Len(rows))
  /\ op' = "deleteRow"
  /\ args' = <<i>>
  /\ thrown' = "none"
  /\ log' = <<>>
  /\ calls' = <<>>
  /\ alert' = "none"
  /\ UNCHANGED <<heap, subscribers, held, shown>>

\* The user types a value in the input of row i.
EditRow(i, text) ==
  /\ rows' = [rows EXCEPT ![i].input = text]
  /\ op' = "editRow"
  /\ args' = <<i, text>>
  /\ thrown' = "none"
  /\ log' = <<>>
  /\ calls' = <<>>
  /\ alert' = "none"
  /\ UNCHANGED <<heap, subscribers, held, shown>>

PageNext ==
  \/ \E input \in AddFormInputs : AddFormSubmit(input)
  \/ TableSubmit
  \/ \E text \in JsonTexts : JsonSubmit(text)
  \/ \E i \in 1..Len(rows) : DeleteRow(i)
  \/ \E i \in 1..Len(rows) : \E text \in TypedValues : EditRow(i, text)

PageSpec == PageInit /\ [][PageNext]_vars

(***************************************************************************)
(* Records are objects too. In EntrySpec a record carries the name of the  *)
(* object it is, in its field obj: two elements with the same name are the *)
(* same object, and a change of a field of an object is seen through every *)
(* array that holds it. #pushValidItem pushes the record it was handed and *)
(* getData copies the elements of #chartData as they are, so both keep the *)
(* name. The caller keeps, in the array of CallerSlot, the records it has  *)
(* handed to the container or the array getData returned.                  *)
(***************************************************************************)
\* Most entries of the dataset in EntrySpec.
MaxDataset == 2

\* The names of the objects of array arr.
ObjectsOf(arr) == {arr[i].obj : i \in 1..Len(arr)}
\* The k-th name, from 1 up, that no record of the dataset has.
NewObject(hp, k) ==
  LET used == ObjectsOf(hp[ChartDataRef])
      free == (1..(Cardinality(used) + k)) \ used
  IN CHOOSE o \in free : Cardinality({f \in free : f < o}) = k - 1
\* { id, value }: a new record object.
NewRecord(e, o) == [id |-> e.id, value |-> e.value, obj |-> o]

\* The entries the caller of EntrySpec makes records of.
KeptEntries ==
  { [id |-> <<"a">>, value |-> Num(0)],
    [id |-> <<"b">>, value |-> Num(100)],
    [id |-> <<"a">>, value |-> Num(101)] }

\* Assignments to a field of a record.
FieldChanges ==
  { [field |-> "id", to |-> <<"b">>],
    [field |-> "value", to |-> Num(101)] }
\* record[field] = to, for the record named o.
Assign(hp, o, ch) ==
  [r \in Refs |->
     [k \in 1..Len(hp[r]) |->
        IF hp[r][k].obj # o THEN hp[r][k]
        ELSE IF ch.field = "id" THEN [hp[r][k] EXCEPT !.id = ch.to]
        ELSE [hp[r][k] EXCEPT !.value = ch.to]]]

\* addItem of a new record, which the caller keeps.
AddItemKeeping(e) ==
  LET newItem == NewRecord(e, NewObject(heap, 1))
      r == addItem(heap, subscribers, newItem, Rendering)
  IN
  /\ Len(heap[ChartDataRef]) < MaxDataset
  /\ heap' = [Collect(r.heap, {}) EXCEPT ![CallerSlot] = <<newItem>>]
  /\ held' = {CallerSlot}
  /\ op' = "addItem"
  /\ args' = <<newItem>>
  /\ thrown' = r.thrown
  /\ log' = r.log
  /\ UNCHANGED <<subscribers, page>>

\* updateData of an array of new records, which the caller keeps.
UpdateDataKeeping(list) ==
  LET newData == [i \in 1..Len(list) |-> NewRecord(list[i], NewObject(heap, i))]
      r == updateData(heap, subscribers, newData, Rendering)
  IN
  /\ heap' = [Collect(r.heap, {}) EXCEPT ![CallerSlot] = newData]
  /\ held' = {CallerSlot}
  /\ op' = "updateData"
  /\ args' = <<newData>>
  /\ thrown' = r.thrown
  /\ log' = r.log
  /\ UNCHANGED <<subscribers, page>>

\* The caller assigns to a field of the i-th record of the array it keeps.
MutateEntry(i, ch) ==
  /\ held = {CallerSlot}
  /\ i \in 1..Len(heap[CallerSlot])
  /\ heap' = Assign(heap, heap[CallerSlot][i].obj, ch)
  /\ op' = "mutateEntry"
  /\ args' = <<i, ch>>
  /\ thrown' = "none"
  /\ log' = <<>>
  /\ UNCHANGED <<subscribers, held, page>>

EntryNext ==
  \/ \E e \in KeptEntries : AddItemKeeping(e)
  \/ \E list \in SeqsUpTo(KeptEntries, MaxCandidates) : UpdateDataKeeping(list)
  \/ GetData
  \/ \E i \in 1..Len(heap[CallerSlot]) : \E ch \in FieldChanges :
       MutateEntry(i, ch)

EntrySpec == Init /\ [][EntryNext]_vars

(***************************************************************************)
(* The contract, in its own words.                                         *)
(***************************************************************************)
ValidationErrors == {"duplicate", "emptyId", "tooHigh", "tooLow"}
Mutators == {"addItem", "updateData"}
\* An id that is empty or all white space.
IsBlank(id) == \A i \in 1..Len(id) : id[i] \in WhiteSpace
HasId(data, id) == \E i \in 1..Len(data) : data[i].id = id
InRange(v) == ~v.nan /\ 0 <= v.n /\ v.n <= 100
OutOfRange(v) == ~v.nan /\ (v.n > 100 \/ v.n < 0)
\* Entry e fails validation against the entries accepted so far.
FailsAgainst(e, accepted) ==
  HasId(accepted, e.id) \/ IsBlank(e.id) \/ OutOfRange(e.value)
\* Some candidate of the list fails against the candidates before it.
BatchFails(newData) ==
  \E i \in 1..Len(newData) : FailsAgainst(newData[i], SubSeq(newData, 1, i - 1))
\* Some callback of the log changed the array it was handed.
RanMutating(lg) == \E i \in 1..Len(lg) : lg[i].did = "mutate"

\* C1: an updateData whose candidate list holds a failing candidate raises a
\* validation error and leaves the dataset exactly as it was.
C1_UpdateDataAtomic ==
  [][(op' = "updateData" /\ BatchFails(args'[1]))
       => (thrown' \in ValidationErrors /\ ChartData' = ChartData)]_vars

\* C2: an addItem of an entry that fails validation against the dataset
\* raises a validation error and leaves the dataset exactly as it was.
C2_AddItemFailureKeepsData ==
  [][(op' = "addItem" /\ FailsAgainst(args'[1], ChartData))
       => (thrown' \in ValidationErrors /\ ChartData' = ChartData)]_vars
C2_Witness ==
  /\ op = "addItem"
  /\ thrown = "duplicate"
  /\ Len(ChartData) = 2

\* C3: in every state, after successful and failed calls alike, no two
\* entries of the dataset have the same id.
C3_UniqueIds ==
  \A i, j \in 1..Len(ChartData) :
    i # j => ChartData[i].id # ChartData[j].id
C3_Witness ==
  /\ op = "updateData"
  /\ thrown = "duplicate"
  /\ Len(args[1]) = 2
  /\ Len(ChartData) = 1

\* C4: in every state every entry of the dataset has 0 <= value <= 100.
C4_ValueRange ==
  \A i \in 1..Len(ChartData) : InRange(ChartData[i].value)

\* C5: in every state, after successful and failed calls alike, no entry of
\* the dataset has an id that is empty or all white space.
C5_NoBlankId ==
  \A i \in 1..Len(ChartData) : ~IsBlank(ChartData[i].id)
C5_Witness ==
  /\ op = "updateData"
  /\ thrown = "emptyId"
  /\ Len(args[1]) = 2
  /\ args[1][2].id = <<" ">>
  /\ Len(ChartData) = 1

\* C6: an updateData whose candidates all pass validation leaves the dataset
\* equal to the candidate list, in candidate order, and when it returns every
\* subscriber has been handed that list; so updateData([]) leaves [] and
\* hands [] to every subscriber.
C6_UpdateDataReplaces ==
  op = "updateData" =>
    /\ ~BatchFails(args[1]) => (thrown \notin ValidationErrors /\ ChartData = args[1])
    /\ thrown \notin ValidationErrors => ChartData = args[1]
    /\ thrown = "none" =>
         /\ Len(log) = Len(subscribers)
         /\ \A i \in 1..Len(log) : log[i].data = args[1]
C6_Witness ==
  /\ op = "updateData"
  /\ thrown = "none"
  /\ Len(args[1]) = 2
  /\ Len(subscribers) = 2

\* C7: an addItem of an entry that passes validation against dataset D
\* leaves the dataset equal to D followed by the entry.
C7_AddItemAppends ==
  [][op' = "addItem" =>
       /\ ~FailsAgainst(args'[1], ChartData) => thrown' \notin ValidationErrors
       /\ thrown' \notin ValidationErrors => ChartData' = Append(ChartData, args'[1])]_vars
C7_Witness ==
  /\ op = "addItem"
  /\ thrown = "none"
  /\ Len(ChartData) = 2

\* C8: when an addItem or updateData returns, the callbacks have run in the
\* order of their registration, each handed the elements of the dataset as
\* the call left it.
C8_FanOutInOrder ==
  (op \in Mutators /\ thrown = "none") =>
    /\ Len(log) = Len(subscribers)
    /\ \A i \in 1..Len(log) : log[i].callback = i /\ log[i].data = ChartData
C8_Witness ==
  /\ op = "addItem"
  /\ thrown = "none"
  /\ Len(subscribers) = 2
  /\ Len(ChartData) = 2

\* C9: an addItem or updateData that returns has run each registered
\* callback exactly once; one that fails validation, a getData and a
\* subscribe run none.
C9_NotifiedOncePerSuccess ==
  /\ (op \in Mutators /\ thrown = "none") =>
       \A s \in 1..Len(subscribers) :
         Cardinality({i \in 1..Len(log) : log[i].callback = subscribers[s]}) = 1
  /\ (thrown \in ValidationErrors \/ op \in {"getData", "subscribe"}) => log = <<>>
C9_Witness ==
  /\ op = "addItem"
  /\ thrown \in ValidationErrors
  /\ Len(subscribers) = 2

\* C10: a change made to the array getData returned leaves the dataset as
\* it was, and a change a callback makes to the array it was handed leaves
\* the dataset and the arrays handed to the other callbacks as the call
\* made them.
C10_SnapshotIsolation ==
  [][/\ op' = "mutateSnapshot" => ChartData' = ChartData
     /\ (op' = "addItem" /\ RanMutating(log')) =>
          /\ ChartData' = Append(ChartData, args'[1])
          /\ \A i \in 1..Len(log') : log'[i].data = ChartData'
     /\ (op' = "updateData" /\ RanMutating(log')) =>
          /\ ChartData' = args'[1]
          /\ \A i \in 1..Len(log') : log'[i].data = ChartData']_vars
C10_Witness ==
  /\ op = "mutateSnapshot"
  /\ ChartData # <<>>
  /\ \E r \in held : heap[r] # ChartData

\* The first rule entry e breaks against the entries of data, in the order
\* duplicate id, empty id, value over 100, value under 0; "none" if it breaks
\* no rule.
FirstViolated(e, data) ==
  IF HasId(data, e.id) THEN "duplicate"
  ELSE IF IsBlank(e.id) THEN "emptyId"
  ELSE IF ~e.value.nan /\ e.value.n > 100 THEN "tooHigh"
  ELSE IF ~e.value.nan /\ e.value.n < 0 THEN "tooLow"
  ELSE "none"

\* C11: an addItem of an entry that breaks one or more of the four rules
\* raises the error of the first rule it breaks, in the order duplicate id,
\* empty id, value over 100, value under 0, and leaves the dataset as it was;
\* an entry is pushed only when it breaks none of the four.
C11_FirstViolatedRuleIsReported ==
  [][op' = "addItem" =>
       LET rule == FirstViolated(args'[1], ChartData) IN
       /\ rule # "none" => (thrown' = rule /\ ChartData' = ChartData)
       /\ rule = "none" => thrown' \notin ValidationErrors
       /\ ChartData' # ChartData => rule = "none"]_vars
C11_Witness ==
  /\ op = "addItem"
  /\ thrown = "duplicate"
  /\ OutOfRange(args[1].value)
  /\ HasId(ChartData, args[1].id)

\* The candidates of newData that fail against the candidates before them.
FailingCandidates(newData) ==
  {i \in 1..Len(newData) :
     FirstViolated(newData[i], SubSeq(newData, 1, i - 1)) # "none"}
\* The error of the failing candidate of lowest index; "none" if none fails.
BatchError(newData) ==
  IF FailingCandidates(newData) = {} THEN "none"
  ELSE LET k == CHOOSE i \in FailingCandidates(newData) :
                  \A j \in FailingCandidates(newData) : i <= j
       IN FirstViolated(newData[k], SubSeq(newData, 1, k - 1))

\* C12: whatever the dataset was before the call, an updateData raises a
\* validation error iff some candidate fails against the candidates before
\* it in the list, and the error is that of the failing candidate of lowest
\* index; the entries the dataset held before the call play no part.
C12_OutcomeFromCandidatesOnly ==
  op = "updateData" =>
    IF BatchError(args[1]) = "none"
    THEN thrown \notin ValidationErrors
    ELSE thrown = BatchError(args[1])
C12_Witness ==
  /\ op = "updateData"
  /\ Len(args[1]) = 2
  /\ IsBlank(args[1][1].id)
  /\ OutOfRange(args[1][2].value)
  /\ thrown = "emptyId"

\* Some callback of the log raised.
RanRaising(lg) == \E i \in 1..Len(lg) : lg[i].did = "raise"

\* C13: when a callback raises during the notification of an addItem or an
\* updateData, the call raises that error to its caller; and a call raises a
\* callback's error only when a callback it ran raised.
C13_CallbackErrorPropagates ==
  op \in Mutators => (RanRaising(log) <=> thrown = "callback")
C13_Witness ==
  /\ op = "addItem"
  /\ thrown = "callback"
  /\ Len(log) = 2
  /\ log[2].did = "raise"

\* C14: the JSON editor form submitted with a text that is not JSON makes no
\* call on the container, leaves the dataset, the views and the table as
\* they were, runs no callback, and alerts the parse error.
C14_ParseFailureStaysOut ==
  [][(op' = "jsonSubmit" /\ args'[1] \in MalformedTexts) =>
       /\ calls' = <<>>
       /\ ChartData' = ChartData
       /\ log' = <<>>
       /\ shown' = shown
       /\ rows' = rows
       /\ alert' = "SyntaxError"]_vars
C14_Witness ==
  /\ op = "jsonSubmit"
  /\ alert = "SyntaxError"
  /\ Len(args[1]) > 2
  /\ ChartData # <<>>

\* The ids of a sequence of entries or of rows, in order.
IdsOf(s) == [i \in 1..Len(s) |-> s[i].id]

\* C15: a click on the delete button of a row removes that row from the
\* table and nothing else: it makes no call on the container, runs no
\* callback and leaves the dataset as it was. A submit of the table form
\* makes one call, updateData with one entry for each displayed row, in
\* display order, with the row's id and the number its input shows; when
\* that call returns, the ids of the dataset are those of the rows that were
\* displayed, in order.
C15_DeleteIsLocalUntilSubmit ==
  [][/\ op' = "deleteRow" =>
          /\ calls' = <<>>
          /\ log' = <<>>
          /\ ChartData' = ChartData
          /\ shown' = shown
          /\ Len(rows') = Len(rows) - 1
          /\ \A j \in 1..Len(rows') :
               rows'[j] = IF j < args'[1] THEN rows[j] ELSE rows[j + 1]
     /\ op' = "tableSubmit" =>
          /\ Len(calls') = 1
          /\ calls'[1].method = "updateData"
          /\ IdsOf(calls'[1].arg) = IdsOf(rows)
          /\ \A i \in 1..Len(rows) :
               \/ rows[i].input = ToString(calls'[1].arg[i].value)
               \/ rows[i].input = <<>> /\ calls'[1].arg[i].value = Num(0)
          /\ alert' = "none" => IdsOf(ChartData') = IdsOf(rows)]_vars
C15_Witness ==
  /\ op = "deleteRow"
  /\ Len(rows) = 1
  /\ Len(ChartData) = 2
  /\ \A c \in PageViews : Len(shown[c]) = 2

\* C16: on the page, between the runs of its event handlers, each of the
\* three renderers has last drawn the dataset as it now is.
C16_ViewsSynchronized ==
  \A c \in PageViews : shown[c] = ChartData

\* C17: from every reachable dataset, updateData(getData()) raises no
\* validation error, although every candidate's id is in the dataset, and
\* leaves the dataset equal to what it was; when it returns, each registered
\* callback has been run once, in order, and handed that dataset.
C17_RoundTrip ==
  [][op' = "updateData(getData())" =>
       /\ thrown' \notin ValidationErrors
       /\ ChartData' = ChartData
       /\ thrown' = "none" =>
            /\ Len(log') = Len(subscribers)
            /\ \A i \in 1..Len(log') :
                 log'[i].callback = subscribers[i] /\ log'[i].data = ChartData]_vars
C17_Witness ==
  /\ op = "updateData(getData())"
  /\ thrown = "none"
  /\ Len(ChartData) = 2
  /\ Len(log) = 2

\* C18: an assignment to the id or the value of a record the caller keeps,
\* be it a record of the array getData returned or a record it handed to
\* addItem or updateData, leaves the dataset as it was.
C18_EntriesOwned ==
  [][op' = "mutateEntry" => ChartData' = ChartData]_vars

\* C19: when a callback raises during the notification of an addItem or an
\* updateData that passed validation, the dataset is what the call made it,
\* the callbacks registered before the raising one have each been handed
\* that dataset, and the callbacks registered after it have not been run.
C19_RaisingSubscriberKeepsMutation ==
  [][(op' \in Mutators /\ thrown' = "callback") =>
       /\ ChartData' = IF op' = "addItem" THEN Append(ChartData, args'[1])
                       ELSE args'[1]
       /\ Len(log') \in 1..Len(subscribers)
       /\ \A i \in 1..Len(log') :
            /\ log'[i].callback = subscribers[i]
            /\ log'[i].data = ChartData'
            /\ log'[i].did = "raise" <=> i = Len(log')]_vars
C19_Witness ==
  /\ op = "updateData"
  /\ thrown = "callback"
  /\ Len(subscribers) = 2
  /\ Len(log) = 1
  /\ ChartData = args[1]
  /\ ChartData # <<>>
====
